---- MODULE Spec2Model ----
(***************************************************************************)
(* Model of src/main.py, the /process handler of tiktok-robot: request     *)
(* parsing and authentication, the fail-fast media pipeline, the webhook   *)
(* notification of the outcome and the removal of the job's workspace.     *)
(*                                                                         *)
(* Conventions.  A Python dict is a function whose DOMAIN is its key set.  *)
(* A str that the code inspects is the sequence of its characters, each   *)
(* one of the 256 characters of Latin-1, with the classes (whitespace,     *)
(* word character, lower case) Python gives them.  Times                   *)
(* are in milliseconds, loudness values in tenths (-14 is -140, -1.5 is    *)
(* -15).  An exception message is modelled by its length.  process() is a  *)
(* coroutine: it can be suspended only at its two awaits (req.json(),      *)
(* req.form()); everything after them runs on the event loop without       *)
(* yielding (variable loop).  The program may be started as several server *)
(* processes, each with its own event loop and its own _model; they share  *)
(* the directory of temporary files (variable fs).                         *)
(*                                                                         *)
(* Spec is the handler in one server process, SpecWorkers the handler in   *)
(* several processes that serve requests in parallel.  SpecTs, SpecEnable, SpecChunks, SpecHook and      *)
(* SpecEscape each call one helper function on its own, on arguments drawn *)
(* from a bounded set (variables call and ret).                            *)
(***************************************************************************)
EXTENDS Integers, Sequences, FiniteSets, TLC

\* Number of requests that can be in flight at once (handler instances).
NumJobs == 2

Jobs == 1 .. NumJobs
\* Names tempfile.mkdtemp() can hand out; one per handler instance suffices.
TmpNames == 1 .. NumJobs
NoJob == 0
NoDir == 0
NoProc == 0
NoModel == 0

\* src/main.py:7  APP_AUTH
APP_AUTH == "secret"
\* src/main.py:267, 278  str(e)[:800]
ErrMax == 800
\* src/main.py:65  words[:8]
MaxHookWords == 8

VARIABLES
    job,                 \* per handler instance: position and locals of process()
    loop,                \* per server process: the coroutine its event loop is running
    model,               \* per server process: _model, the whisper handle (NoModel: None)
    loads,               \* per server process: number of completed whisper.load_model calls
    fs,                  \* temp directories that exist: name -> set of file names
    ZAPIER_WEBHOOK_URL,  \* src/main.py:11
    BASE44_CALLBACK,     \* src/main.py:9
    call,                \* a helper function called on its own: its name and arguments
    ret                  \* the value that call returned (NoRet: not yet called)

vars == <<job, loop, model, loads, fs, ZAPIER_WEBHOOK_URL, BASE44_CALLBACK, call, ret>>

----------------------------------------------------------------------------
(* Python dicts and values *)

EmptyDict == [k \in {} |-> k]
Has(d, k) == k \in DOMAIN d
Get(d, k, default) == IF k \in DOMAIN d THEN d[k] ELSE default
Put(d, k, v) == (k :> v) @@ d
SetDefault(d, k, v) == IF k \in DOMAIN d THEN d ELSE (k :> v) @@ d
\* S is a set with at most one element: the value of key k, if present.
Opt(k, S) == IF S = {} THEN EmptyDict ELSE (k :> (CHOOSE x \in S : TRUE))

Range(s) == {s[i] : i \in DOMAIN s}
Min(a, b) == IF a <= b THEN a ELSE b

\* A Python value as has_captions can hold it: its type and its str().
PyBool(b) == [t |-> "bool",
              s |-> IF b THEN <<"T", "r", "u", "e">> ELSE <<"F", "a", "l", "s", "e">>]
PyStr(s) == [t |-> "str", s |-> s]
str(v) == v.s

\* A str is the sequence of its characters.
Lowercase == {"a", "b", "c", "d", "e", "f", "g", "h", "i", "j", "k", "l", "m", "n",
              "o", "p", "q", "r", "s", "t", "u", "v", "w", "x", "y", "z"}
Uppercase == {"A", "B", "C", "D", "E", "F", "G", "H", "I", "J", "K", "L", "M", "N",
              "O", "P", "Q", "R", "S", "T", "U", "V", "W", "X", "Y", "Z"}
Digits == {"0", "1", "2", "3", "4", "5", "6", "7", "8", "9"}

\* The letters and digits of Latin-1 beyond ASCII (a character is one of the
\* 256 of Latin-1; the classes below are those of Python on that range).
Latin1Word ==
    {"ª", "²", "³", "µ", "¹", "º", "¼", "½", "¾", "À", "Á", "Â", "Ã",
     "Ä", "Å", "Æ", "Ç", "È", "É", "Ê", "Ë", "Ì", "Í", "Î", "Ï", "Ð",
     "Ñ", "Ò", "Ó", "Ô", "Õ", "Ö", "Ø", "Ù", "Ú", "Û", "Ü", "Ý", "Þ",
     "ß", "à", "á", "â", "ã", "ä", "å", "æ", "ç", "è", "é", "ê", "ë",
     "ì", "í", "î", "ï", "ð", "ñ", "ò", "ó", "ô", "õ", "ö", "ø", "ù",
     "ú", "û", "ü", "ý", "þ", "ÿ"}
\* The whitespace of Latin-1: tab, line feed, vertical tab, form feed, carriage
\* return, the separators 0x1c-0x1f, the space, NEL (0x85), the no-break space.
Whitespace ==
    {"\t", "\n", "", "\f", "\r", "", "", "", "", " ", "", " "}

\* str.lower(), one character.
LowerChar(c) ==
    CASE c = "A" -> "a" [] c = "B" -> "b" [] c = "C" -> "c" [] c = "D" -> "d"
      [] c = "E" -> "e" [] c = "F" -> "f" [] c = "G" -> "g" [] c = "H" -> "h"
      [] c = "I" -> "i" [] c = "J" -> "j" [] c = "K" -> "k" [] c = "L" -> "l"
      [] c = "M" -> "m" [] c = "N" -> "n" [] c = "O" -> "o" [] c = "P" -> "p"
      [] c = "Q" -> "q" [] c = "R" -> "r" [] c = "S" -> "s" [] c = "T" -> "t"
      [] c = "U" -> "u" [] c = "V" -> "v" [] c = "W" -> "w" [] c = "X" -> "x"
      [] c = "Y" -> "y" [] c = "Z" -> "z" [] c = "À" -> "à" [] c = "Á" -> "á"
      [] c = "Â" -> "â" [] c = "Ã" -> "ã" [] c = "Ä" -> "ä" [] c = "Å" -> "å"
      [] c = "Æ" -> "æ" [] c = "Ç" -> "ç" [] c = "È" -> "è" [] c = "É" -> "é"
      [] c = "Ê" -> "ê" [] c = "Ë" -> "ë" [] c = "Ì" -> "ì" [] c = "Í" -> "í"
      [] c = "Î" -> "î" [] c = "Ï" -> "ï" [] c = "Ð" -> "ð" [] c = "Ñ" -> "ñ"
      [] c = "Ò" -> "ò" [] c = "Ó" -> "ó" [] c = "Ô" -> "ô" [] c = "Õ" -> "õ"
      [] c = "Ö" -> "ö" [] c = "Ø" -> "ø" [] c = "Ù" -> "ù" [] c = "Ú" -> "ú"
      [] c = "Û" -> "û" [] c = "Ü" -> "ü" [] c = "Ý" -> "ý" [] c = "Þ" -> "þ"
      [] OTHER -> c
lower(s) == [i \in 1 .. Len(s) |-> LowerChar(s[i])]

\* \s of re; the whitespace of str.strip() and str.split().
IsSpace(c) == c \in Whitespace
\* \w of re.
IsWordChar(c) == c \in Lowercase \cup Uppercase \cup Digits \cup {"_"} \cup Latin1Word

RECURSIVE lstrip(_)
lstrip(s) == IF s # <<>> /\ IsSpace(Head(s)) THEN lstrip(Tail(s)) ELSE s
RECURSIVE rstrip(_)
rstrip(s) ==
    IF s # <<>> /\ IsSpace(s[Len(s)]) THEN rstrip(SubSeq(s, 1, Len(s) - 1)) ELSE s
\* str.strip()
strip(s) == rstrip(lstrip(s))

RECURSIVE split(_, _)
\* str.split(): the maximal runs of non-whitespace (cur: the run being read).
split(s, cur) ==
    IF s = <<>> THEN (IF cur = <<>> THEN <<>> ELSE <<cur>>)
    ELSE IF IsSpace(Head(s))
         THEN (IF cur = <<>> THEN <<>> ELSE <<cur>>) \o split(Tail(s), <<>>)
         ELSE split(Tail(s), Append(cur, Head(s)))

RECURSIVE join(_, _)
\* sep.join(parts)
join(sep, parts) ==
    IF parts = <<>> THEN <<>>
    ELSE IF Len(parts) = 1 THEN parts[1]
         ELSE parts[1] \o sep \o join(sep, Tail(parts))

RECURSIVE replace(_, _, _)
\* s.replace(c, by) for a one-character c.
replace(s, c, by) ==
    IF s = <<>> THEN <<>>
    ELSE (IF Head(s) = c THEN by ELSE <<Head(s)>>) \o replace(Tail(s), c, by)

\* src/main.py:144
ParseHasCaptions(v) == lower(str(v)) = <<"t", "r", "u", "e">>

----------------------------------------------------------------------------
(* Inputs: requests, tool results, webhook results *)

Methods == {"POST", "OPTIONS"}

\* The Authorization header: absent, or a Bearer credential.
NoHeader == [scheme |-> "none", token |-> ""]
Bearer(tok) == [scheme |-> "bearer", token |-> tok]

\* The credentials of a request: <<body field auth (if any), Authorization header>>.
AuthCases == {<<{}, NoHeader>>, <<{}, Bearer("secret")>>, <<{}, Bearer("wrong")>>,
              <<{"secret"}, NoHeader>>, <<{"wrong"}, Bearer("secret")>>}

VideoIdOpts == {{}, {"vidA"}}
RawUrlOpts == {{}, {"https://raw"}}
VideoUrlOpts == {{}, {"https://alt"}}
SettingsOpts ==
    {{}, {("audio" :> ("lufs" :> -160))
           @@ ("export" :> (("hook_start_min_sec" :> 1000) @@ ("hook_duration_sec" :> 0)))}}

MkBody(a, v, r, u, c, s) ==
    Opt("auth", a) @@ Opt("video_id", v) @@ Opt("raw_url", r) @@ Opt("video_url", u)
        @@ Opt("has_captions", c) @@ Opt("settings", s)

\* Requests whose body req.json() returns as a dict.
JsonRequests ==
    {[hdr |-> ac[2], body |-> MkBody(ac[1], v, r, u, c, s)] :
        ac \in AuthCases, v \in VideoIdOpts, r \in RawUrlOpts, u \in VideoUrlOpts,
        c \in {{}, {PyBool(FALSE)}}, s \in SettingsOpts}

\* Requests with a form body, dict(await req.form()): string values only.
FormRequests ==
    {[hdr |-> ac[2], body |-> MkBody(ac[1], v, r, {}, c, {})] :
        ac \in AuthCases, v \in VideoIdOpts, r \in RawUrlOpts,
        c \in {{PyStr(<<"T", "R", "U", "E">>)}, {PyStr(<<"y", "e", "s">>)}}}

\* Authorization headers of requests whose body is not a dict, or not parsed.
Headers == {ac[2] : ac \in AuthCases}

\* Lengths of str(e) of the exception a failing stage raises.
ErrLens == {40, 801}

\* What requests.post does: 2xx, a non-2xx answer, or an exception.
PostOutcomes == {"ok", "http_error", "exception"}

\* Transcript texts as the engine returns them (with their leading space).
TextEmpty == <<>>
TextQuestion ==
    <<" ", "I", "t", " ", "w", "a", "s", " ", "l", "o", "n", "g", ".",
      " ", " ", "H", "O", "W", " ", "d", "o", " ", "y", "o", "u", " ", "f",
      "i", "x", " ", "t", "h", "i", "s", ":", " ", "i", "t", "'", "s", " ",
      "e", "a", "s", "y", "?">>
TextLong ==
    <<" ", "o", "n", "e", " ", "t", "w", "o", " ", "t", "h", "r", "e",
      "e", " ", "f", "o", "u", "r", " ", "f", "i", "v", "e", " ", "s", "i",
      "x", " ", "s", "e", "v", "e", "n", " ", "e", "i", "g", "h", "t", " ",
      "n", "i", "n", "e", " ", "t", "e", "n">>

\* Word-timing dicts of the engine (times in milliseconds).
Word(w, s, e) == ("word" :> w) @@ ("start" :> s) @@ ("end" :> e)
WordNoEnd(w, s) == ("word" :> w) @@ ("start" :> s)

\* result of model.transcribe(): text and, per segment, its list of words.
\* The last word of the question ends on a half centisecond (1.305 s).
Results ==
    {[text |-> TextEmpty, segments |-> <<>>],
     [text |-> TextQuestion,
      segments |-> << <<Word(<<" ", "H", "O", "W">>, 0, 300), Word(<<" ", "d", "o">>, 300, 450),
                        WordNoEnd(<<" ", "y", "o", "u">>, 450)>>,
                      <<Word(<<" ", "f", "i", "x">>, 600, 900),
                        Word(<<" ", "t", "h", "i", "s", ":">>, 900, 1305)>> >>],
     [text |-> TextLong, segments |-> << <<WordNoEnd(<<" ", "o", "n", "e">>, 0)>> >>]}

----------------------------------------------------------------------------
(* Pure helpers of the handler *)

\* src/main.py:124-128: the credential the request presents ("" stands for None).
Credential(body, hdr) ==
    LET a == Get(body, "auth", "")
    IN  IF a # "" THEN a
        ELSE IF hdr.scheme = "bearer" THEN hdr.token ELSE ""

AuthAlwaysOk(tok) == TRUE
\* src/main.py:130
AuthOk(tok) == tok = APP_AUTH

\* src/main.py:134-135
NormalizeUrl(b) ==
    IF Has(b, "video_url") /\ ~Has(b, "raw_url") THEN Put(b, "raw_url", b["video_url"]) ELSE b

\* src/main.py:138-139
WithDefaults(b) ==
    SetDefault(SetDefault(b, "has_captions", PyBool(TRUE)), "settings", EmptyDict)

NoKeyError(b) == FALSE
\* src/main.py:142-143: body["video_id"], body["raw_url"] raise KeyError.
MissingKey(b) == ~Has(b, "video_id") \/ ~Has(b, "raw_url")

\* src/main.py:62: the alternatives of the trigger pattern.
Triggers ==
    {<<"h", "o", "w">>,
     <<"w", "h", "a", "t">>,
     <<"w", "h", "y">>,
     <<"s", "t", "o", "p">>,
     <<"s", "e", "c", "r", "e", "t">>,
     <<"b", "e", "s", "t">>,
     <<"a", "v", "o", "i", "d">>,
     <<"n", "e", "v", "e", "r">>}
\* src/main.py:60, 63: "Watch this"
DefaultHook == <<"W", "a", "t", "c", "h", " ", "t", "h", "i", "s">>

RECURSIVE SplitSentences(_, _)
\* src/main.py:61: re.split(r'(?<=[.!?])\s+', s): s is cut at every run of
\* whitespace that follows closing punctuation (cur: the piece being read).
SplitSentences(s, cur) ==
    IF s = <<>> THEN <<cur>>
    ELSE IF IsSpace(Head(s)) /\ cur # <<>> /\ cur[Len(cur)] \in {".", "!", "?"}
         THEN <<cur>> \o SplitSentences(lstrip(s), <<>>)
         ELSE SplitSentences(Tail(s), Append(cur, Head(s)))

\* src/main.py:62: \bw\b matches at position i of c, ignoring case.
MatchesAt(c, i, w) ==
    /\ i + Len(w) - 1 <= Len(c)
    /\ \A k \in 1 .. Len(w) : LowerChar(c[i + k - 1]) = w[k]
    /\ (i = 1 \/ ~IsWordChar(c[i - 1]))
    /\ (i + Len(w) > Len(c) \/ ~IsWordChar(c[i + Len(w)]))

\* As if the pattern were matched without re.I.
IsStrongCaseSensitive(c) ==
    \E i \in 1 .. Len(c) : \E w \in Triggers :
        /\ i + Len(w) - 1 <= Len(c)
        /\ \A k \in 1 .. Len(w) : c[i + k - 1] = w[k]
        /\ (i = 1 \/ ~IsWordChar(c[i - 1]))
        /\ (i + Len(w) > Len(c) \/ ~IsWordChar(c[i + Len(w)]))
\* src/main.py:62: re.search(r'\b(how|...|never)\b', c, re.I)
IsStrong(c) == \E i \in 1 .. Len(c) : \E w \in Triggers : MatchesAt(c, i, w)

\* src/main.py:58-65
pick_title_hook(text) ==
    IF text = <<>> THEN DefaultHook
    ELSE LET candidates == SplitSentences(strip(text), <<>>)
             strong == SelectSeq(candidates, IsStrong)
             line == IF strong # <<>> THEN strong[1]
                     ELSE IF candidates # <<>> THEN candidates[1] ELSE DefaultHook
             words == split(line, <<>>)
         IN  IF Len(words) > MaxHookWords
             THEN join(<<" ">>, SubSeq(words, 1, MaxHookWords))
             ELSE line

\* One decimal digit.
DigitChar(d) ==
    CASE d = 0 -> "0" [] d = 1 -> "1" [] d = 2 -> "2" [] d = 3 -> "3" [] d = 4 -> "4"
      [] d = 5 -> "5" [] d = 6 -> "6" [] d = 7 -> "7" [] d = 8 -> "8" [] d = 9 -> "9"

RECURSIVE Dec(_)
\* The decimal digits of n >= 0.
Dec(n) == IF n < 10 THEN <<DigitChar(n)>> ELSE Append(Dec(n \div 10), DigitChar(n % 10))

RECURSIVE Pad(_, _)
\* Format spec 0<width>d: zero-padded to at least width digits, never cut.
Pad(d, width) == IF Len(d) >= width THEN d ELSE Pad(<<"0">> \o d, width)

\* src/main.py:95: int(round(frac * 100)) for frac in milliseconds.  Python
\* rounds an exact half to even, but frac * 100 is a binary float: where the
\* decimal value ends in a half, the float lies on either side (tieUp).
RoundCs(frac, tieUp) ==
    (frac \div 10) + (IF frac % 10 > 5 \/ (frac % 10 = 5 /\ tieUp) THEN 1 ELSE 0)

\* src/main.py:93-99: ts(t), for t in milliseconds.
ts(t, tieUp) ==
    LET tt == IF t < 0 THEN 0 ELSE t
        whole == tt \div 1000
        cs == RoundCs(tt % 1000, tieUp)
        sec == whole % 60
        m == (whole \div 60) % 60
        h == whole \div 3600
    IN  Pad(Dec(h), 1) \o <<":">> \o Pad(Dec(m), 2) \o <<":">> \o Pad(Dec(sec), 2)
            \o <<".">> \o Pad(Dec(cs), 2)

ChunkTextUntrimmed(group) == join(<<" ">>, [i \in 1 .. Len(group) |-> group[i]["word"]])
\* src/main.py:72: the text of a group of words.
ChunkText(group) ==
    strip(join(<<" ">>, [i \in 1 .. Len(group) |-> strip(group[i]["word"])]))

RECURSIVE ChunkLoop(_, _, _)
\* src/main.py:69-77: the while loop, from index i (counted from 0).
ChunkLoop(words, max_words, i) ==
    IF ~(i < Len(words)) THEN <<>>
    ELSE LET group == SubSeq(words, i + 1, Min(i + max_words, Len(words)))
         IN  IF group = <<>> THEN <<>>
             ELSE (IF ChunkText(group) # <<>>
                   THEN <<[text |-> ChunkText(group), start |-> group[1]["start"],
                           end |-> group[Len(group)]["end"]]>>
                   ELSE <<>>) \o ChunkLoop(words, max_words, i + max_words)

\* src/main.py:67-78
words_to_chunks(words, max_words) == ChunkLoop(words, max_words, 0)

\* src/main.py:67: max_words=3
DefaultMaxWords == 3

\* src/main.py:95: round() meets a half centisecond at time t.
IsTie(t) == t > 0 /\ t % 10 = 5

\* src/main.py:104: the ways the two ts() calls of each chunk can round: up
\* only where they meet a half.
TieChoices(chunks) ==
    {up \in [1 .. Len(chunks) -> BOOLEAN \X BOOLEAN] :
        \A i \in 1 .. Len(chunks) :
            /\ up[i][1] => IsTie(chunks[i].start)
            /\ up[i][2] => IsTie(chunks[i].end)}

\* src/main.py:101-104: the Dialogue lines of the subtitle document.
make_ass_from_chunks(chunks, up) ==
    [i \in 1 .. Len(chunks) |->
        [start |-> ts(chunks[i].start, up[i][1]), end |-> ts(chunks[i].end, up[i][2]),
         text |-> chunks[i].text]]

\* src/main.py:188-193
safe_title(title_hook) ==
    replace(replace(replace(title_hook, ":", <<"\\", ":">>), "'", <<"\\", "'">>),
            "\"", <<"\\", "\"">>)

BetweenHalfOpen(x, lo, hi) == lo <= x /\ x < hi
\* src/main.py:198: between(t, start, end) of the ffmpeg expression evaluator
\* is 1 if start <= t <= end, else 0.
between(x, lo, hi) == lo <= x /\ x <= hi

\* src/main.py:194-203: the drawtext filter: its text and its enable window
\* (times in milliseconds).
draw(title, hook_start, hook_dur) ==
    [text |-> safe_title(title), start |-> hook_start, end |-> hook_start + hook_dur]
NoDraw == [text |-> <<>>, start |-> 0, end |-> 0]

\* src/main.py:198: enable='between(t\,{start}\,{end})' at time t of the video.
Enabled(d, t) == between(t, d.start, d.end)

RECURSIVE Flatten(_)
\* src/main.py:178-179: the words of all segments, in order.
Flatten(segs) == IF segs = <<>> THEN <<>> ELSE Head(segs) \o Flatten(Tail(segs))

\* src/main.py:180
WellFormed(w) == Has(w, "start") /\ Has(w, "end") /\ Has(w, "word")

\* src/main.py:177-181
CollectWords(segs) == SelectSeq(Flatten(segs), WellFormed)

WantCaptionsIgnoringFlag(has_captions, words) == words # <<>>
\* src/main.py:183
WantCaptions(has_captions, words) == has_captions /\ words # <<>>

\* src/main.py:207-216: the filter graph, as the list of its filters.
FilterGraph(ass_path) ==
    IF ass_path # "" THEN <<"scale", "crop", "subtitles", "drawtext">>
    ELSE <<"scale", "crop", "drawtext">>

\* src/main.py:230: "loudnorm=I=-14:TP=-1.5:LRA=11"
LoudnormArgs == [I |-> -140, TP |-> -15, LRA |-> 110]
NoCmd == [I |-> 0, TP |-> 0, LRA |-> 0]

RunIgnoringExit(rc, next) == next
\* src/main.py:51-56: run() raises on a non-zero exit; the except block is next.
RunNext(rc, next) == IF rc = 0 THEN next ELSE "except"

ErrorMsgWhole(e) == e
\* src/main.py:267, 278: str(e)[:800]
ErrorMsg(e) == Min(e, ErrMax)

NotifyBoth(zapier, base44) ==
    (IF zapier # "" THEN <<"zapier">> ELSE <<>>) \o (IF base44 # "" THEN <<"base44">> ELSE <<>>)
\* src/main.py:262-281: if ZAPIER_WEBHOOK_URL ... elif BASE44_CALLBACK ...
NotifyTargets(zapier, base44) ==
    IF zapier # "" THEN <<"zapier">> ELSE IF base44 # "" THEN <<"base44">> ELSE <<>>

\* As if the workspace were removed at the end of the stages, before the
\* callback, instead of in a finally block.
ThenCleanupFirst(pc) ==
    CASE pc = "normalize" -> "finally" [] pc = "finally" -> "deliver"
      [] pc = "deliver" -> "respond" [] pc = "except" -> "respond"
\* src/main.py:153-286: the order of the try statement: the callback follows
\* the last stage (226-236), the finally block follows the end of the try
\* body and of the except block (285), the response follows the finally block.
Then(pc) ==
    CASE pc = "normalize" -> "deliver" [] pc = "deliver" -> "finally"
      [] pc = "except" -> "finally" [] pc = "finally" -> "respond"

CallbackErrorFails(outcome) == IF outcome = "ok" THEN Then("deliver") ELSE "except"
\* src/main.py:248-256: an error of the READY post is caught; return {"ok": True}.
DeliverNext(outcome) == Then("deliver")

RmtreeNothing(fsys, d) == fsys
\* src/main.py:286: shutil.rmtree(work, ignore_errors=True)
rmtree(fsys, d) == [x \in DOMAIN fsys \ {d} |-> fsys[x]]

\* A file written into directory d.
AddFile(fsys, d, name) == [fsys EXCEPT ![d] = @ \cup {name}]

\* As if whisper.load_model were awaited: the loop serves others during a load.
LoadYieldsLoop(j) ==
    LET running == loop[job[j].proc]
    IN  \/ running = j
        \/ running = NoJob /\ job[j].pc \in {"await_json", "await_form"}
        \/ running \in Jobs /\ job[running].pc = "load_model"
\* src/main.py:108: async def process: the handler is a coroutine of the one
\* event loop.  It takes a step when the loop is free (it starts, or resumes
\* from an await) or when it is the coroutine the loop is running.
OnEventLoop(j) == loop[job[j].proc] = NoJob \/ loop[job[j].proc] = j

\* The file operations of a step: the paths it hands to open(), to a tool, to
\* rmtree(); every path is os.path.join(work, name).
Reads(d, names) == {[op |-> "read", dir |-> d, name |-> n] : n \in names}
Writes(d, names) == {[op |-> "write", dir |-> d, name |-> n] : n \in names}
Makes(d) == {[op |-> "mkdir", dir |-> d, name |-> ""]}
Removes(d) == {[op |-> "rmtree", dir |-> d, name |-> ""]}

\* As if the workspace were one directory of a fixed name, made if missing.
FixedWorkDir(fsys) == CHOOSE x \in TmpNames : \A y \in TmpNames : x <= y
\* src/main.py:152: tempfile.mkdtemp() makes a directory of a name that no
\* existing directory has.  The names are interchangeable: the least unused
\* one stands for any of them.
mkdtemp(fsys) ==
    CHOOSE x \in TmpNames \ DOMAIN fsys : \A y \in TmpNames \ DOMAIN fsys : x <= y

----------------------------------------------------------------------------
(* State *)

NoResp == [status |-> 0, kind |-> "", len |-> 0]
Resp(status, kind, len) == [status |-> status, kind |-> kind, len |-> len]

IdleJob ==
    [pc |-> "idle", hdr |-> NoHeader, body_kind |-> "none",
     body |-> EmptyDict, video_id |-> "", raw_url |-> "", has_captions |-> FALSE,
     lufs |-> 0, peak |-> 0, hook_start |-> 0, hook_dur |-> 0,
     proc |-> NoProc, work |-> NoDir, io |-> {}, handle |-> NoModel, did_load |-> FALSE,
     segments |-> <<>>, transcript |-> <<>>, title_hook |-> <<>>, words |-> <<>>,
     ass_path |-> "", ass |-> <<>>, draw |-> NoDraw, vf |-> <<>>, norm_af |-> NoCmd,
     failed_stage |-> "", err |-> 0,
     trace |-> <<>>, posts |-> <<>>, resp |-> NoResp]

\* No helper is called on its own while the handler is examined.
NoCall == [fn |-> "none"]
NoRet == [done |-> FALSE]
Returned(v) == [done |-> TRUE, val |-> v]

\* The program started as n server processes: no request yet, no engine
\* loaded, no workspace.
Started(n) ==
    /\ job = [j \in Jobs |-> IdleJob]
    /\ loop = [p \in 1 .. n |-> NoJob]
    /\ model = [p \in 1 .. n |-> NoModel]
    /\ loads = [p \in 1 .. n |-> 0]
    /\ fs = EmptyDict

Init ==
    /\ Started(1)
    /\ ZAPIER_WEBHOOK_URL \in {"", "https://hooks.zapier"}
    /\ BASE44_CALLBACK \in {"", "https://base44"}
    /\ call = NoCall
    /\ ret = NoRet

\* What no step of the handler changes.
Env == <<ZAPIER_WEBHOOK_URL, BASE44_CALLBACK, call, ret>>

\* src/main.py:108-286: the locals of process() belong to one invocation: the
\* handler instance j moves to record r, the others keep theirs.
Set(j, r) == job' = [job EXCEPT ![j] = r]

\* A stage of the pipeline raised: control goes to the except block.
Raised(r, stage, e) == [r EXCEPT !.pc = "except", !.failed_stage = stage, !.err = e]

\* A tool started by run() exited non-zero with e characters on stderr.
ToolFailed(r, stage, e, next) ==
    [r EXCEPT !.pc = RunNext(1, next), !.failed_stage = stage, !.err = e]

----------------------------------------------------------------------------
(* The handler, one action per step of process() *)

\* src/main.py:107-115: the request reaches the handler in a server process
\* whose event loop is free; OPTIONS is answered at once, POST suspends at
\* `await req.json()`.
Arrive(j) ==
    /\ job[j].pc = "idle"
    /\ \E p \in DOMAIN loop, m \in Methods :
         /\ loop[p] = NoJob
         /\ IF m = "OPTIONS"
            THEN /\ Set(j, [job[j] EXCEPT !.pc = "respond", !.proc = p,
                                          !.resp = Resp(204, "empty", 0)])
                 /\ loop' = [loop EXCEPT ![p] = j]
            ELSE /\ Set(j, [job[j] EXCEPT !.pc = "await_json", !.proc = p])
                 /\ loop' = loop
    /\ UNCHANGED <<model, loads, fs, Env>>

\* src/main.py:114-117: req.json() completes: a dict, another JSON value, or an
\* exception, after which the handler suspends at `await req.form()`.
JsonParsed(j) ==
    /\ job[j].pc = "await_json"
    /\ OnEventLoop(j)
    /\ \/ \E rq \in JsonRequests :
            /\ Set(j, [job[j] EXCEPT !.pc = "auth", !.body_kind = "dict",
                                     !.body = rq.body, !.hdr = rq.hdr])
            /\ loop' = [loop EXCEPT ![job[j].proc] = j]
       \/ \E h \in Headers :
            /\ Set(j, [job[j] EXCEPT !.pc = "auth", !.body_kind = "list", !.hdr = h])
            /\ loop' = [loop EXCEPT ![job[j].proc] = j]
       \/ /\ Set(j, [job[j] EXCEPT !.pc = "await_form"])
          /\ loop' = loop
    /\ UNCHANGED <<model, loads, fs, Env>>

\* src/main.py:117-121: req.form() completes: body = dict(form), or it raises and
\* the handler returns 400.
FormParsed(j) ==
    /\ job[j].pc = "await_form"
    /\ OnEventLoop(j)
    /\ \/ \E rq \in FormRequests :
            Set(j, [job[j] EXCEPT !.pc = "auth", !.body_kind = "dict",
                                  !.body = rq.body, !.hdr = rq.hdr])
       \/ \E h \in Headers :
            Set(j, [job[j] EXCEPT !.pc = "respond", !.body_kind = "unparsed", !.hdr = h,
                                  !.resp = Resp(400, "Bad payload", 0)])
    /\ loop' = [loop EXCEPT ![job[j].proc] = j]
    /\ UNCHANGED <<model, loads, fs, Env>>

\* src/main.py:124-131: body.get on a non-dict raises (AttributeError, not
\* handled: 500); a credential other than APP_AUTH is answered 401.
CheckAuth(j) ==
    /\ job[j].pc = "auth"
    /\ OnEventLoop(j)
    /\ IF job[j].body_kind # "dict"
       THEN Set(j, [job[j] EXCEPT !.pc = "respond", !.resp = Resp(500, "internal", 0)])
       ELSE IF AuthOk(Credential(job[j].body, job[j].hdr))
            THEN Set(j, [job[j] EXCEPT !.pc = "inputs"])
            ELSE Set(j, [job[j] EXCEPT !.pc = "respond", !.resp = Resp(401, "Bad auth", 0)])
    /\ UNCHANGED <<loop, model, loads, fs, Env>>

\* src/main.py:134-150: raw_url normalisation, defaults, the inputs; a missing
\* video_id or raw_url raises KeyError outside the try block (500).
ExtractInputs(j) ==
    /\ job[j].pc = "inputs"
    /\ OnEventLoop(j)
    /\ LET b == WithDefaults(NormalizeUrl(job[j].body))
           settings == Get(b, "settings", EmptyDict)
           audio == Get(settings, "audio", EmptyDict)
           export == Get(settings, "export", EmptyDict)
       IN  IF MissingKey(b)
           THEN Set(j, [job[j] EXCEPT !.pc = "respond", !.body = b,
                                      !.resp = Resp(500, "internal", 0)])
           ELSE Set(j, [job[j] EXCEPT !.pc = "mkdtemp", !.body = b,
                                      !.video_id = Get(b, "video_id", ""),
                                      !.raw_url = Get(b, "raw_url", ""),
                                      !.has_captions =
                                          ParseHasCaptions(Get(b, "has_captions", PyBool(TRUE))),
                                      !.lufs = Get(audio, "lufs", -140),
                                      !.peak = Get(audio, "peak_db", -10),
                                      !.hook_start = Get(export, "hook_start_min_sec", 300),
                                      !.hook_dur = Get(export, "hook_duration_sec", 2500)])
    /\ UNCHANGED <<loop, model, loads, fs, Env>>

\* src/main.py:152: work = tempfile.mkdtemp(), a new directory of a fresh name.
Mkdtemp(j) ==
    /\ job[j].pc = "mkdtemp"
    /\ OnEventLoop(j)
    /\ TmpNames \ DOMAIN fs # {}
    /\ LET d == mkdtemp(fs)
       IN  /\ fs' = (d :> {}) @@ fs
           /\ Set(j, [job[j] EXCEPT !.pc = "download", !.work = d, !.io = Makes(d)])
    /\ UNCHANGED <<loop, model, loads, Env>>

\* src/main.py:155-156 (43-49): Acquire.  The request or its status raises
\* before input.mp4 is opened (44-45), or the stream breaks after it was (46-49).
Download(j) ==
    /\ job[j].pc = "download"
    /\ OnEventLoop(j)
    /\ LET r == [job[j] EXCEPT !.trace = Append(@, "Acquire"),
                               !.io = Writes(job[j].work, {"input.mp4"})]
       IN  \/ /\ Set(j, [r EXCEPT !.pc = "extract_audio"])
              /\ fs' = AddFile(fs, r.work, "input.mp4")
           \/ \E e \in ErrLens :
                /\ Set(j, Raised(r, "Acquire", e))
                /\ fs' = fs
           \/ \E e \in ErrLens :
                /\ Set(j, Raised(r, "Acquire", e))
                /\ fs' = AddFile(fs, r.work, "input.mp4")
    /\ UNCHANGED <<loop, model, loads, Env>>

\* src/main.py:159-160: Transcribe, first the audio extraction by ffmpeg.
ExtractAudio(j) ==
    /\ job[j].pc = "extract_audio"
    /\ OnEventLoop(j)
    /\ LET r == [job[j] EXCEPT !.trace = Append(@, "Transcribe"),
                               !.io = Reads(job[j].work, {"input.mp4"})
                                          \cup Writes(job[j].work, {"audio.wav"})]
       IN  \/ /\ Set(j, [r EXCEPT !.pc = RunNext(0, "get_model")])
              /\ fs' = AddFile(fs, r.work, "audio.wav")
           \/ \E e \in ErrLens :
                /\ Set(j, ToolFailed(r, "Transcribe", e, "get_model"))
                /\ fs' = fs
    /\ UNCHANGED <<loop, model, loads, Env>>

\* src/main.py:19, 21: get_model reads _model; a handle that exists is returned.
GetModel(j) ==
    /\ job[j].pc = "get_model"
    /\ OnEventLoop(j)
    /\ IF model[job[j].proc] = NoModel
       THEN Set(j, [job[j] EXCEPT !.pc = "load_model", !.io = {}])
       ELSE Set(j, [job[j] EXCEPT !.pc = "transcribe", !.io = {},
                                  !.handle = model[job[j].proc]])
    /\ UNCHANGED <<loop, model, loads, fs, Env>>

\* src/main.py:20-21: _model = whisper.load_model(...): a new handle, or the
\* load raises and _model stays None.
LoadModel(j) ==
    /\ job[j].pc = "load_model"
    /\ OnEventLoop(j)
    /\ \/ /\ model' = [model EXCEPT ![job[j].proc] = loads[job[j].proc] + 1]
          /\ loads' = [loads EXCEPT ![job[j].proc] = @ + 1]
          /\ Set(j, [job[j] EXCEPT !.pc = "transcribe", !.did_load = TRUE,
                                   !.handle = loads[job[j].proc] + 1])
       \/ \E e \in ErrLens :
            /\ Set(j, Raised(job[j], "Transcribe", e))
            /\ UNCHANGED <<model, loads>>
    /\ UNCHANGED <<loop, fs, Env>>

\* src/main.py:161-162: the engine transcribes the audio.
Transcribe(j) ==
    /\ job[j].pc = "transcribe"
    /\ OnEventLoop(j)
    /\ LET r == [job[j] EXCEPT !.io = Reads(job[j].work, {"audio.wav"})]
       IN  \/ \E res \in Results :
                Set(j, [r EXCEPT !.pc = "hook", !.segments = res.segments,
                                 !.transcript = strip(res.text)])
           \/ \E e \in ErrLens : Set(j, Raised(r, "Transcribe", e))
    /\ UNCHANGED <<loop, model, loads, fs, Env>>

\* src/main.py:165: SelectHook.
SelectHook(j) ==
    /\ job[j].pc = "hook"
    /\ OnEventLoop(j)
    /\ Set(j, [job[j] EXCEPT !.pc = "tighten", !.trace = Append(@, "SelectHook"),
                             !.io = {},
                             !.title_hook = pick_title_hook(job[j].transcript)])
    /\ UNCHANGED <<loop, model, loads, fs, Env>>

\* src/main.py:168-174: TightenSilence.
TightenSilence(j) ==
    /\ job[j].pc = "tighten"
    /\ OnEventLoop(j)
    /\ LET r == [job[j] EXCEPT !.trace = Append(@, "TightenSilence"),
                               !.io = Reads(job[j].work, {"input.mp4"})
                                          \cup Writes(job[j].work, {"tight.mp4"})]
       IN  \/ /\ Set(j, [r EXCEPT !.pc = RunNext(0, "captions")])
              /\ fs' = AddFile(fs, r.work, "tight.mp4")
           \/ \E e \in ErrLens :
                /\ Set(j, ToolFailed(r, "TightenSilence", e, "captions"))
                /\ fs' = fs
    /\ UNCHANGED <<loop, model, loads, Env>>

\* src/main.py:177-185: BuildCaptions: the well-formed words are collected; the
\* subtitle document is written only for enabled, non-empty captions.
BuildCaptions(j) ==
    /\ job[j].pc = "captions"
    /\ OnEventLoop(j)
    /\ LET words == CollectWords(job[j].segments)
           chunks == words_to_chunks(words, DefaultMaxWords)
       IN  IF WantCaptions(job[j].has_captions, words)
           THEN /\ \E up \in TieChoices(chunks) :
                     Set(j, [job[j] EXCEPT !.pc = "burn", !.words = words,
                                           !.ass_path = "captions.ass",
                                           !.io = Writes(job[j].work, {"captions.ass"}),
                                           !.ass = make_ass_from_chunks(chunks, up),
                                           !.trace = Append(@, "BuildCaptions")])
                /\ fs' = AddFile(fs, job[j].work, "captions.ass")
           ELSE /\ Set(j, [job[j] EXCEPT !.pc = "burn", !.words = words, !.io = {}])
                /\ fs' = fs
    /\ UNCHANGED <<loop, model, loads, Env>>

\* src/main.py:187-224: ComposeAndBurn: the filter graph, then ffmpeg.
ComposeAndBurn(j) ==
    /\ job[j].pc = "burn"
    /\ OnEventLoop(j)
    /\ LET r == [job[j] EXCEPT !.trace = Append(@, "ComposeAndBurn"),
                               !.draw = draw(job[j].title_hook, job[j].hook_start,
                                             job[j].hook_dur),
                               !.vf = FilterGraph(job[j].ass_path),
                               !.io = Reads(job[j].work,
                                            {"tight.mp4"} \cup
                                            (IF job[j].ass_path # ""
                                             THEN {job[j].ass_path} ELSE {}))
                                          \cup Writes(job[j].work, {"staged.mp4"})]
       IN  \/ /\ Set(j, [r EXCEPT !.pc = RunNext(0, "normalize")])
              /\ fs' = AddFile(fs, r.work, "staged.mp4")
           \/ \E e \in ErrLens :
                /\ Set(j, ToolFailed(r, "ComposeAndBurn", e, "normalize"))
                /\ fs' = fs
    /\ UNCHANGED <<loop, model, loads, Env>>

\* src/main.py:227-234: Normalize.
Normalize(j) ==
    /\ job[j].pc = "normalize"
    /\ OnEventLoop(j)
    /\ LET r == [job[j] EXCEPT !.trace = Append(@, "Normalize"), !.norm_af = LoudnormArgs,
                               !.io = Reads(job[j].work, {"staged.mp4"})
                                          \cup Writes(job[j].work, {"final.mp4"})]
       IN  \/ /\ Set(j, [r EXCEPT !.pc = RunNext(0, Then("normalize"))])
              /\ fs' = AddFile(fs, r.work, "final.mp4")
           \/ \E e \in ErrLens :
                /\ Set(j, ToolFailed(r, "Normalize", e, Then("normalize")))
                /\ fs' = fs
    /\ UNCHANGED <<loop, model, loads, Env>>

PayloadSafeTitle(r) == r.draw.text
\* src/main.py:244: "title_hook": title_hook
PayloadHook(r) == r.title_hook

\* src/main.py:241-247: the READY submission: multipart, with the final video.
ReadyRecord(r, outcome) ==
    [to |-> "zapier", status |-> "READY", video_id |-> r.video_id,
     title_hook |-> PayloadHook(r), error_len |-> 0, source |-> "render",
     file |-> "final.mp4", outcome |-> outcome]

\* src/main.py:264-269, 275-279: the FAILED submission: JSON only.
FailedRecord(r, target, outcome) ==
    [to |-> target, status |-> "FAILED", video_id |-> Get(r.body, "video_id", ""),
     title_hook |-> <<>>, error_len |-> ErrorMsg(r.err),
     source |-> IF target = "zapier" THEN "render" ELSE "", file |-> "", outcome |-> outcome]

\* src/main.py:236-256: Deliver: skipped without ZAPIER_WEBHOOK_URL; else the
\* final video is opened and posted, and an error of the post is swallowed.
Deliver(j) ==
    /\ job[j].pc = "deliver"
    /\ OnEventLoop(j)
    /\ LET r == [job[j] EXCEPT !.trace = Append(@, "Deliver"),
                               !.io = IF ZAPIER_WEBHOOK_URL = "" THEN {}
                                      ELSE Reads(job[j].work, {"final.mp4"})]
           ok200 == Resp(200, "ok_true", 0)
       IN  IF ZAPIER_WEBHOOK_URL = ""
           THEN Set(j, [r EXCEPT !.pc = Then("deliver"), !.resp = ok200])
           ELSE IF r.work \notin DOMAIN fs \/ "final.mp4" \notin fs[r.work]
                THEN \E e \in ErrLens : Set(j, Raised(r, "Deliver", e))
                ELSE \E o \in PostOutcomes :
                       LET next == DeliverNext(o)
                       IN  Set(j, [r EXCEPT !.pc = next,
                                            !.posts = Append(@, ReadyRecord(r, o)),
                                            !.resp = IF next # "except" THEN ok200 ELSE @])
    /\ UNCHANGED <<loop, model, loads, fs, Env>>

\* src/main.py:258-283: the except block: one FAILED notice, whose own failure
\* is ignored, then HTTPException(500, detail=str(e)).
HandleFailure(j) ==
    /\ job[j].pc = "except"
    /\ OnEventLoop(j)
    /\ LET targets == NotifyTargets(ZAPIER_WEBHOOK_URL, BASE44_CALLBACK)
       IN  \E o \in PostOutcomes :
             Set(j, [job[j] EXCEPT
                       !.pc = Then("except"), !.io = {},
                       !.posts = @ \o [i \in 1 .. Len(targets) |->
                                         FailedRecord(job[j], targets[i], o)],
                       !.resp = Resp(500, "detail", job[j].err)])
    /\ UNCHANGED <<loop, model, loads, fs, Env>>

\* src/main.py:285-286: finally: the workspace is removed.
Cleanup(j) ==
    /\ job[j].pc = "finally"
    /\ OnEventLoop(j)
    /\ fs' = rmtree(fs, job[j].work)
    /\ Set(j, [job[j] EXCEPT !.pc = Then("finally"), !.io = Removes(job[j].work)])
    /\ UNCHANGED <<loop, model, loads, Env>>

\* The handler has returned or raised: the response goes out, the locals die,
\* and the event loop is free again.
Respond(j) ==
    /\ job[j].pc = "respond"
    /\ OnEventLoop(j)
    /\ Set(j, IdleJob)
    /\ loop' = [loop EXCEPT ![job[j].proc] = NoJob]
    /\ UNCHANGED <<model, loads, fs, Env>>

Next ==
    \E j \in Jobs :
        \/ Arrive(j) \/ JsonParsed(j) \/ FormParsed(j) \/ CheckAuth(j)
        \/ ExtractInputs(j) \/ Mkdtemp(j) \/ Download(j) \/ ExtractAudio(j)
        \/ GetModel(j) \/ LoadModel(j) \/ Transcribe(j) \/ SelectHook(j)
        \/ TightenSilence(j) \/ BuildCaptions(j) \/ ComposeAndBurn(j)
        \/ Normalize(j) \/ Deliver(j) \/ HandleFailure(j) \/ Cleanup(j) \/ Respond(j)

Spec == Init /\ [][Next]_vars

----------------------------------------------------------------------------
(* Vocabulary of the properties *)

\* The instance holds a POST request whose body parsing has ended (in a dict,
\* another JSON value, or the failure of both parsers).
Parsed(r) == r.body_kind # "none"
\* The handler has returned or raised: its HTTP response is produced.
AtResponse(r) == r.pc = "respond"
\* The request passed authentication and validation: a workspace was created.
Validated(r) == r.work # NoDir
\* A stage of the pipeline failed.
Failed(r) == r.failed_stage # ""
\* The request presents a credential other than the secret.
BadCredential(r) == Parsed(r) /\ Credential(r.body, r.hdr) # APP_AUTH
\* The request has no video_id, or no source URL under either field name.
LacksRequired(r) ==
    ~Has(r.body, "video_id") \/ (~Has(r.body, "raw_url") /\ ~Has(r.body, "video_url"))
\* No workspace, no download or tool, no webhook submission.
NoSideEffects(r) == r.work = NoDir /\ r.trace = <<>> /\ r.posts = <<>>

StageOrder ==
    <<"Acquire", "Transcribe", "SelectHook", "TightenSilence", "BuildCaptions",
      "ComposeAndBurn", "Normalize", "Deliver">>
StageOrderNoCaptions ==
    <<"Acquire", "Transcribe", "SelectHook", "TightenSilence",
      "ComposeAndBurn", "Normalize", "Deliver">>
IsPrefix(s, t) == Len(s) <= Len(t) /\ \A i \in 1 .. Len(s) : s[i] = t[i]

IsReady(p, r) ==
    /\ p.status = "READY" /\ p.to = "zapier" /\ p.file = "final.mp4"
    /\ p.title_hook = r.title_hook /\ p.video_id = r.video_id
IsFailedNotice(p, r) ==
    /\ p.status = "FAILED" /\ p.file = ""
    /\ p.video_id = Get(r.body, "video_id", "")
    /\ p.error_len = Min(r.err, ErrMax) /\ p.error_len <= ErrMax

----------------------------------------------------------------------------
(* C1 *)

\* C1 (as claimed): every job that passed authentication and validation has made
\* exactly one webhook submission when its response is produced, a READY one
\* or a FAILED one, whatever endpoints are configured.
C1_ExactlyOneOutcome ==
    \A j \in Jobs :
        LET r == job[j]
        IN  AtResponse(r) /\ Validated(r) =>
                /\ Len(r.posts) = 1
                /\ IsReady(r.posts[1], r) \/ IsFailedNotice(r.posts[1], r)

\* C1 (amended): such a job has made at most one submission: exactly one READY
\* submission when no stage failed and the primary endpoint is configured,
\* exactly one FAILED submission when a stage failed and the primary or the
\* legacy endpoint is configured, and none when no endpoint applies.
C1_OutcomePerConfiguredEndpoint ==
    \A j \in Jobs :
        LET r == job[j]
        IN  AtResponse(r) /\ Validated(r) =>
                /\ Len(r.posts) <= 1
                /\ ~Failed(r) =>
                      /\ Len(r.posts) = 1 <=> ZAPIER_WEBHOOK_URL # ""
                      /\ Len(r.posts) = 1 => IsReady(r.posts[1], r)
                /\ Failed(r) =>
                      /\ Len(r.posts) = 1 <=> (ZAPIER_WEBHOOK_URL # "" \/ BASE44_CALLBACK # "")
                      /\ Len(r.posts) = 1 => IsFailedNotice(r.posts[1], r)

\* A job answers after all stages succeeded with its READY submission made.
C1_Witness ==
    \E j \in Jobs :
        /\ AtResponse(job[j]) /\ Validated(job[j]) /\ ~Failed(job[j])
        /\ Len(job[j].posts) = 1 /\ job[j].posts[1].status = "READY"

----------------------------------------------------------------------------
(* C2 *)

\* C2: when the response of a job that created a workspace is produced, the
\* workspace directory is gone, on every exit path; and a directory that
\* exists belongs to a job that is still before its response.
C2_WorkspaceRemoved ==
    /\ \A j \in Jobs :
          AtResponse(job[j]) /\ Validated(job[j]) => job[j].work \notin DOMAIN fs
    /\ \A d \in DOMAIN fs :
          \E j \in Jobs : job[j].work = d /\ ~AtResponse(job[j]) /\ Parsed(job[j])

\* A job whose stage failed and whose FAILED notice failed too answers, its
\* workspace (which held files) removed.
C2_Witness ==
    \E j \in Jobs :
        /\ AtResponse(job[j]) /\ Validated(job[j])
        /\ job[j].failed_stage = "Normalize"
        /\ job[j].posts # <<>> /\ job[j].posts[1].outcome = "exception"
        /\ fs = EmptyDict

----------------------------------------------------------------------------
(* C3 *)

\* C3 (as claimed): a request with a credential other than the secret has no
\* workspace, no stage and no submission, and its response is 401.
C3_BadCredentialAlways401 ==
    \A j \in Jobs :
        LET r == job[j]
        IN  BadCredential(r) =>
                /\ NoSideEffects(r)
                /\ AtResponse(r) => r.resp.status = 401

\* C3 (amended): a request with a credential other than the secret never has
\* a workspace, a stage or a submission; when its body was parsed to a dict
\* it is answered 401 before its fields are validated, and otherwise it is
\* rejected (400 unparseable, 500 not a dict) before the credential is read.
C3_BadCredentialRejected ==
    \A j \in Jobs :
        LET r == job[j]
        IN  BadCredential(r) =>
                /\ NoSideEffects(r)
                /\ r.pc \in {"auth", "respond"}
                /\ AtResponse(r) =>
                      r.resp.status = (CASE r.body_kind = "dict" -> 401
                                         [] r.body_kind = "unparsed" -> 400
                                         [] OTHER -> 500)

\* A request with a wrong credential and no required field is answered 401.
C3_Witness ==
    \E j \in Jobs :
        /\ AtResponse(job[j]) /\ BadCredential(job[j]) /\ job[j].body_kind = "dict"
        /\ LacksRequired(job[j]) /\ job[j].resp.status = 401

----------------------------------------------------------------------------
(* C4 *)

\* C4: the stages a job has started are a prefix of the fixed order (with or
\* without BuildCaptions), so each ran at most once and none was revisited;
\* and once a stage has failed, it is the last stage the job started.
C4_StagesInOrderFailFast ==
    \A j \in Jobs :
        LET r == job[j]
        IN  /\ IsPrefix(r.trace, StageOrder) \/ IsPrefix(r.trace, StageOrderNoCaptions)
            /\ Failed(r) => r.trace # <<>> /\ r.trace[Len(r.trace)] = r.failed_stage

\* A job whose burn failed after captions were built answers.
C4_Witness ==
    \E j \in Jobs :
        /\ AtResponse(job[j]) /\ job[j].failed_stage = "ComposeAndBurn"
        /\ job[j].trace = SubSeq(StageOrder, 1, 6)

----------------------------------------------------------------------------
(* C5 *)

\* C5: the response of a job is 200 {ok: true} when every stage through
\* Normalize succeeded and 500 with the error's text when a stage failed,
\* whatever became of the webhook submission.
C5_ResponseIsPipelineOutcome ==
    \A j \in Jobs :
        LET r == job[j]
            throughNormalize ==
                /\ "Normalize" \in Range(r.trace)
                /\ r.failed_stage \in {"", "Deliver"}
        IN  AtResponse(r) /\ Validated(r) =>
                /\ throughNormalize /\ ~Failed(r) => r.resp = Resp(200, "ok_true", 0)
                /\ Failed(r) => r.resp = Resp(500, "detail", r.err)

\* A job whose READY submission raised answers 200.
C5_Witness ==
    \E j \in Jobs :
        /\ AtResponse(job[j]) /\ job[j].resp.status = 200
        /\ job[j].posts # <<>> /\ job[j].posts[1].outcome = "exception"

----------------------------------------------------------------------------
(* C6 *)

\* C6: after a stage failed, the job has sent one FAILED record without a
\* file, with its video_id and the error text cut to 800 characters, to the
\* primary endpoint when configured, else to the legacy endpoint when
\* configured, else to nobody; the response is 500 with the error, whatever
\* the submission returned.
C6_FailureNotice ==
    \A j \in Jobs :
        LET r == job[j]
            expected == IF ZAPIER_WEBHOOK_URL # "" THEN <<"zapier">>
                        ELSE IF BASE44_CALLBACK # "" THEN <<"base44">> ELSE <<>>
        IN  r.pc \in {"finally", "respond"} /\ Failed(r) =>
                /\ Len(r.posts) = Len(expected)
                /\ \A i \in DOMAIN r.posts :
                      /\ r.posts[i].to = expected[i]
                      /\ IsFailedNotice(r.posts[i], r)
                /\ r.resp = Resp(500, "detail", r.err)

\* A job with an error of 801 characters whose notice to the legacy endpoint
\* raised answers.
C6_Witness ==
    \E j \in Jobs :
        /\ AtResponse(job[j]) /\ job[j].err = 801
        /\ job[j].posts # <<>> /\ job[j].posts[1].to = "base44"
        /\ job[j].posts[1].error_len = 800
        /\ job[j].posts[1].outcome = "exception"

----------------------------------------------------------------------------
(* C7 *)

\* C7: the engine is loaded at most once in the process, and every job that
\* got a handle from get_model got the handle of that one load.
C7_EngineLoadedOnce ==
    /\ \A p \in DOMAIN loads : loads[p] <= 1
    /\ \A j \in Jobs :
          job[j].handle # NoModel => job[j].handle = 1 /\ model[job[j].proc] = 1

\* A job that did not load the engine transcribes with the handle of the one
\* load, while another request is in flight.
C7_Witness ==
    \E j, k \in Jobs :
        /\ j # k /\ job[k].pc \in {"await_json", "await_form"}
        /\ job[j].pc = "transcribe" /\ ~job[j].did_load
        /\ job[j].proc = job[k].proc
        /\ job[j].handle = 1 /\ loads[job[j].proc] = 1

----------------------------------------------------------------------------
(* C8 *)

\* C8 (as claimed): the loudness normalization of a job runs with the
\* integrated-loudness target and the peak target of the job's settings
\* (-14 and -1 when absent).
C8_LoudnormFromSettings ==
    \A j \in Jobs :
        "Normalize" \in Range(job[j].trace) =>
            /\ job[j].norm_af.I = job[j].lufs
            /\ job[j].norm_af.TP = job[j].peak

----------------------------------------------------------------------------
(* C9 *)

\* C9: once the filter graph is built, it holds the subtitle-burn step exactly
\* when captions are enabled and there are caption words; without captions no
\* subtitle document was written; and without the subtitle step the graph is
\* scale, crop, hook overlay, in that order.
C9_SubtitleStepIffCaptions ==
    \A j \in Jobs :
        LET r == job[j]
            burns == "subtitles" \in Range(r.vf)
        IN  r.vf # <<>> =>
                /\ burns <=> (r.has_captions /\ r.words # <<>>)
                /\ ~r.has_captions =>
                      ~burns /\ r.ass_path = "" /\ "BuildCaptions" \notin Range(r.trace)
                /\ r.work \in DOMAIN fs =>
                      ("captions.ass" \in fs[r.work] <=> burns)
                /\ SelectSeq(r.vf, LAMBDA f : f # "subtitles") = <<"scale", "crop", "drawtext">>
                /\ burns => r.vf = <<"scale", "crop", "subtitles", "drawtext">>

\* A job with has_captions false and caption words has built its graph.
C9_Witness ==
    \E j \in Jobs :
        /\ job[j].vf = <<"scale", "crop", "drawtext">>
        /\ ~job[j].has_captions /\ job[j].words # <<>>

----------------------------------------------------------------------------
(* C10 *)

\* C10: a request whose body could not be parsed, or that lacks video_id or
\* the source URL, never has a workspace, a stage or a submission, and its
\* response is a rejection.
C10_MalformedRejectedEarly ==
    \A j \in Jobs :
        LET r == job[j]
        IN  Parsed(r) /\ (r.body_kind = "unparsed" \/ LacksRequired(r)) =>
                /\ NoSideEffects(r)
                /\ r.pc \in {"auth", "inputs", "respond"}
                /\ AtResponse(r) => r.resp.status \in {400, 401, 500}

\* An authenticated request without video_id is answered with an error.
C10_Witness ==
    \E j \in Jobs :
        /\ AtResponse(job[j]) /\ ~BadCredential(job[j]) /\ job[j].body_kind = "dict"
        /\ ~Has(job[j].body, "video_id") /\ Has(job[j].body, "raw_url")
        /\ job[j].resp.status = 500

----------------------------------------------------------------------------------------------------------------------------------------
(* C11: jobs served in parallel *)

\* The program runs as one server process per handler instance, so that every
\* request in flight can be in its pipeline at once; request j is accepted by
\* process j.  The READY endpoint is configured.
InitWorkers ==
    /\ Started(NumJobs)
    /\ ZAPIER_WEBHOOK_URL = "https://hooks.zapier"
    /\ BASE44_CALLBACK = ""
    /\ call = NoCall
    /\ ret = NoRet

\* The request whose job runs the whole pipeline, with captions.
StandardRequest ==
    [hdr |-> Bearer("secret"), body |-> MkBody({}, {"vidA"}, {"https://raw"}, {}, {}, {})]
\* The requests served in parallel: the standard one, one with a wrong
\* credential, one without video_id, and a form request without captions.
WorkerRequests ==
    {StandardRequest,
     [hdr |-> Bearer("wrong"), body |-> StandardRequest.body],
     [hdr |-> Bearer("secret"), body |-> MkBody({}, {}, {"https://raw"}, {}, {}, {})],
     [hdr |-> NoHeader,
      body |-> MkBody({"secret"}, {"vidA"}, {"https://raw"}, {},
                      {PyStr(<<"y", "e", "s">>)}, {})]}

\* The inputs of a job served in parallel: a request of WorkerRequests or a
\* body that is no dict, the transcription of the question, short error
\* messages, and posts that succeed.
InScope(r) ==
    /\ r.pc = "auth" /\ r.body_kind = "dict" =>
            [hdr |-> r.hdr, body |-> r.body] \in WorkerRequests
    /\ r.body_kind \in {"list", "unparsed"} => r.hdr = NoHeader
    /\ r.pc = "hook" => r.transcript = strip(TextQuestion)
    /\ r.err \in {0, 40}
    /\ \A i \in DOMAIN r.posts : r.posts[i].outcome = "ok"

\* The jobs examined in parallel: inputs in scope, request j on process j.
Narrow == \A j \in Jobs : InScope(job[j]) /\ job[j].proc \in {NoProc, j}

\* The steps of the handler on the inputs in scope.
NextWorkers ==
    \E j \in Jobs :
        \/ Arrive(j) /\ Narrow'
        \/ JsonParsed(j) /\ Narrow'
        \/ FormParsed(j) /\ Narrow'
        \/ CheckAuth(j) /\ Narrow'
        \/ ExtractInputs(j) /\ Narrow'
        \/ Mkdtemp(j) /\ Narrow'
        \/ Download(j) /\ Narrow'
        \/ ExtractAudio(j) /\ Narrow'
        \/ GetModel(j) /\ Narrow'
        \/ LoadModel(j) /\ Narrow'
        \/ Transcribe(j) /\ Narrow'
        \/ SelectHook(j) /\ Narrow'
        \/ TightenSilence(j) /\ Narrow'
        \/ BuildCaptions(j) /\ Narrow'
        \/ ComposeAndBurn(j) /\ Narrow'
        \/ Normalize(j) /\ Narrow'
        \/ Deliver(j) /\ Narrow'
        \/ HandleFailure(j) /\ Narrow'
        \/ Cleanup(j) /\ Narrow'
        \/ Respond(j) /\ Narrow'

SpecWorkers == InitWorkers /\ [][NextWorkers]_vars

\* The job holds a workspace: from its mkdtemp() to its rmtree().
Holds(r) == r.work # NoDir /\ r.pc # "respond"
\* The locals of handler instance j change in this step.
Acted(j) == job'[j] # job[j]
\* Directory d is created, removed, or gets a file in this step.
Touched(d) ==
    \/ (d \in DOMAIN fs) # (d \in DOMAIN fs')
    \/ d \in DOMAIN fs /\ d \in DOMAIN fs' /\ fs'[d] # fs[d]

\* C11: two jobs that hold workspaces at the same time hold different
\* directories.  Every step is the step of one job: it changes that job's
\* locals only; every path it reads, writes or removes lies in that job's
\* workspace and in no workspace another job holds; the workspaces the other
\* jobs hold keep their files; a directory changes only by a step that was
\* handed a path in it to write or remove; and of the state jobs share, a
\* step changes only the engine handle of its process, when it loads it.
C11_WorkspacesIsolated ==
    /\ [](\A j, k \in Jobs :
            j # k /\ Holds(job[j]) /\ Holds(job[k]) => job[j].work # job[k].work)
    /\ [][/\ \A j, k \in Jobs : Acted(j) /\ Acted(k) => j = k
          /\ \A j \in Jobs :
                Acted(j) =>
                    /\ \A f \in job'[j].io :
                          /\ f.dir = job'[j].work
                          /\ \A k \in Jobs \ {j} : Holds(job[k]) => f.dir # job[k].work
                    /\ \A k \in Jobs \ {j} :
                          Holds(job[k]) =>
                              /\ job[k].work \in DOMAIN fs'
                              /\ fs'[job[k].work] = fs[job[k].work]
          /\ \A d \in TmpNames :
                Touched(d) =>
                    \E j \in Jobs :
                        Acted(j) /\ \E f \in job'[j].io : f.dir = d /\ f.op # "read"
          /\ \A p \in DOMAIN model :
                (model'[p] # model[p] \/ loads'[p] # loads[p]) =>
                    \E j \in Jobs : Acted(j) /\ job[j].proc = p /\ job[j].pc = "load_model"
          /\ UNCHANGED <<ZAPIER_WEBHOOK_URL, BASE44_CALLBACK>>]_vars

\* Two jobs hold different workspaces at once: one has just read staged.mp4
\* and written final.mp4 in its own, the other has input.mp4 and its captions
\* in its own and has not rendered yet.
C11_Witness ==
    \E j, k \in Jobs :
        /\ j # k /\ Holds(job[j]) /\ Holds(job[k]) /\ job[j].work # job[k].work
        /\ [op |-> "read", dir |-> job[j].work, name |-> "staged.mp4"] \in job[j].io
        /\ "final.mp4" \in fs[job[j].work]
        /\ {"input.mp4", "captions.ass"} \subseteq fs[job[k].work]
        /\ "final.mp4" \notin fs[job[k].work]

----------------
(* Helper functions called on their own *)

\* The handler at rest, while a helper function is called on its own.
Handler == <<job, loop, model, loads, fs, ZAPIER_WEBHOOK_URL, BASE44_CALLBACK>>
AtRest ==
    /\ Started(1)
    /\ ZAPIER_WEBHOOK_URL = ""
    /\ BASE44_CALLBACK = ""

----------------------------------------------------------------------------
(* C12: ts() *)

\* Times in milliseconds: every fraction of the seconds around the turn of the
\* minute and of the hour, and two negative times.
TsWholes == {0, 1, 59, 60, 61, 3599, 3600, 3661, 36000}
TsTimes == {-1500, -1} \cup {w * 1000 + f : w \in TsWholes, f \in 0 .. 999}

InitTs ==
    /\ AtRest
    /\ call \in {[fn |-> "ts", t |-> t] : t \in TsTimes}
    /\ ret = NoRet

\* src/main.py:93-99, 104: ts(t) returns the rendered timestamp.
CallTs ==
    /\ call.fn = "ts" /\ ~ret.done
    /\ \E tieUp \in BOOLEAN : ret' = Returned(ts(call.t, tieUp))
    /\ UNCHANGED <<Handler, call>>

NextTs == CallTs

SpecTs == InitTs /\ [][NextTs]_vars

RECURSIVE SplitAt(_, _, _)
\* The fields of s between the separator characters seps.
SplitAt(s, seps, cur) ==
    IF s = <<>> THEN <<cur>>
    ELSE IF Head(s) \in seps THEN <<cur>> \o SplitAt(Tail(s), seps, <<>>)
         ELSE SplitAt(Tail(s), seps, Append(cur, Head(s)))

DigitVal(c) == CHOOSE d \in 0 .. 9 : DigitChar(d) = c
RECURSIVE Num(_)
\* The number a sequence of decimal digits denotes.
Num(d) == IF d = <<>> THEN 0 ELSE Num(SubSeq(d, 1, Len(d) - 1)) * 10 + DigitVal(d[Len(d)])

\* The time, in milliseconds, that the fields of H:MM:SS.CC denote.
TsValue(f) == ((Num(f[1]) * 60 + Num(f[2])) * 60 + Num(f[3])) * 1000 + Num(f[4]) * 10

Abs(x) == IF x < 0 THEN -x ELSE x

\* C12: the rendering of a time t >= 0 (a negative one counts as 0) has the
\* four fields H:MM:SS.CC with two-digit minutes, seconds in 00..59 and
\* centiseconds in 00..99, and read back it is t rounded to the nearest
\* centisecond (so within one centisecond of t).
C12_TimestampNearestCentisecond ==
    call.fn = "ts" /\ ret.done =>
        LET f == SplitAt(ret.val, {":", "."}, <<>>)
            t == IF call.t < 0 THEN 0 ELSE call.t
        IN  /\ Len(f) = 4
            /\ Len(f[1]) >= 1 /\ Len(f[2]) = 2 /\ Len(f[3]) = 2 /\ Len(f[4]) = 2
            /\ Num(f[2]) \in 0 .. 59 /\ Num(f[3]) \in 0 .. 59 /\ Num(f[4]) \in 0 .. 99
            /\ 2 * Abs(TsValue(f) - t) <= 10

----------------------------------------------------------------------------
(* C13: the enable window of the title overlay *)

\* Video times examined: every tenth of a second up to MaxTick tenths.
MaxTick == 40
VideoTimes == {100 * i : i \in 0 .. MaxTick}
\* src/main.py:149-150: hook_start_min_sec, hook_duration_sec (milliseconds).
HookStarts == {0, 300, 1000}
HookDurations == {0, 500, 2500}

InitEnable ==
    /\ AtRest
    /\ call \in {[fn |-> "enable", hook_start |-> a, hook_dur |-> d, t |-> t] :
                    a \in HookStarts, d \in HookDurations, t \in VideoTimes}
    /\ ret = NoRet

\* src/main.py:194-203: the overlay is composed, and its enable expression is
\* evaluated at video time t.
CallEnable ==
    /\ call.fn = "enable" /\ ~ret.done
    /\ ret' = Returned(Enabled(draw(DefaultHook, call.hook_start, call.hook_dur), call.t))
    /\ UNCHANGED <<Handler, call>>

NextEnable == CallEnable

SpecEnable == InitEnable /\ [][NextEnable]_vars

\* C13 as stated: the overlay is enabled exactly for
\* hook_start <= t < hook_start + hook_duration.
C13_HalfOpenWindow ==
    call.fn = "enable" /\ ret.done =>
        (ret.val <=> call.hook_start <= call.t /\ call.t < call.hook_start + call.hook_dur)

\* C13: the overlay is enabled exactly for
\* hook_start <= t <= hook_start + hook_duration, both ends included.
C13_ClosedWindow ==
    call.fn = "enable" /\ ret.done =>
        (ret.val <=> call.hook_start <= call.t /\ call.t <= call.hook_start + call.hook_dur)

\* The overlay is evaluated at t = hook_start + hook_duration, and is visible.
C13_Witness ==
    /\ call.fn = "enable" /\ ret.done
    /\ call.hook_dur > 0 /\ call.t = call.hook_start + call.hook_dur
    /\ ret.val

----------------------------------------------------------------------------
(* C14: words_to_chunks() *)

\* Up to MaxWords words, in groups of up to MaxGroup.
MaxWords == 4
MaxGroup == 3
\* Word texts as the engine gives them: with a leading or a trailing space,
\* or nothing but whitespace (a space; a tab and a no-break space).
WordTexts == {<<"a">>, <<" ", "b">>, <<"c", " ">>, <<" ">>, <<"\t", " ">>, <<>>}
\* Word i is spoken from second i - 1 for half a second.
WordSeqs ==
    {[i \in DOMAIN f |-> Word(f[i], 1000 * (i - 1), 1000 * (i - 1) + 500)] :
        f \in UNION {[1 .. n -> WordTexts] : n \in 0 .. MaxWords}}

InitChunks ==
    /\ AtRest
    /\ call \in {[fn |-> "words_to_chunks", words |-> ws, max_words |-> k] :
                    ws \in WordSeqs, k \in 1 .. MaxGroup}
    /\ ret = NoRet

\* src/main.py:67-78
CallChunks ==
    /\ call.fn = "words_to_chunks" /\ ~ret.done
    /\ ret' = Returned(words_to_chunks(call.words, call.max_words))
    /\ UNCHANGED <<Handler, call>>

NextChunks == CallChunks

SpecChunks == InitChunks /\ [][NextChunks]_vars

\* The word is empty once trimmed.
Blank(w) == \A i \in DOMAIN w["word"] : IsSpace(w["word"][i])
\* The g-th group of k consecutive words (the last one may be shorter).
GroupOf(ws, k, g) == SubSeq(ws, (g - 1) * k + 1, Min(g * k, Len(ws)))
\* The groups whose joined text is not empty.
Kept(ws, k) ==
    {g \in 1 .. ((Len(ws) + k - 1) \div k) :
        \E i \in DOMAIN GroupOf(ws, k, g) : ~Blank(GroupOf(ws, k, g)[i])}
\* The i-th of them.
NthKept(ws, k, i) ==
    CHOOSE g \in Kept(ws, k) : Cardinality({h \in Kept(ws, k) : h < g}) = i - 1
\* Every chunk is a kept group, in order, with the group's first start and
\* last end, and there is a chunk for every kept group.
ChunksAreGroups(ws, k, out) ==
    /\ Len(out) = Cardinality(Kept(ws, k))
    /\ \A i \in 1 .. Len(out) :
          LET grp == GroupOf(ws, k, NthKept(ws, k, i))
          IN  /\ out[i].text # <<>>
              /\ out[i].start = grp[1]["start"]
              /\ out[i].end = grp[Len(grp)]["end"]
ChunkTexts(out) == join(<<" ">>, [i \in 1 .. Len(out) |-> out[i].text])
TrimmedWords(ws) == join(<<" ">>, [i \in 1 .. Len(ws) |-> strip(ws[i]["word"])])

\* C14 as stated: the chunks are the groups with a non-empty text, and their
\* texts joined in order equal the trimmed words joined by single spaces.
C14_ChunksConcatenate ==
    call.fn = "words_to_chunks" /\ ret.done =>
        /\ ChunksAreGroups(call.words, call.max_words, ret.val)
        /\ ChunkTexts(ret.val) = TrimmedWords(call.words)

\* C14: the chunks are the groups of k consecutive words whose joined text is
\* not empty, each with its group's first start and last end; their texts
\* joined in order hold the same whitespace-delimited words as the trimmed
\* words joined by single spaces, and are equal to them when no word is
\* empty once trimmed.
C14_ChunksPartition ==
    call.fn = "words_to_chunks" /\ ret.done =>
        /\ ChunksAreGroups(call.words, call.max_words, ret.val)
        /\ split(ChunkTexts(ret.val), <<>>) = split(TrimmedWords(call.words), <<>>)
        /\ (\A i \in DOMAIN call.words : ~Blank(call.words[i])) =>
                ChunkTexts(ret.val) = TrimmedWords(call.words)

\* Two chunks are produced around a group of nothing but whitespace, which
\* is dropped.
C14_Witness ==
    /\ call.fn = "words_to_chunks" /\ ret.done
    /\ Len(ret.val) >= 2
    /\ \E g \in 2 .. Len(call.words) - 1 :
          /\ call.max_words = 1 /\ Blank(call.words[g])
          /\ ~Blank(call.words[g - 1]) /\ ~Blank(call.words[g + 1])
    /\ ChunkTexts(ret.val) # TrimmedWords(call.words)

----------------------------------------------------------------------------
(* C15: pick_title_hook() *)

\* Transcripts of up to MaxSentences sentences and an unfinished last one.
MaxSentences == 3

\* Sentences: their words, the whitespace between the words, and whether a
\* trigger word stands among them (in any case, as a whole word: not inside a
\* longer word, nor after an accented letter).

SentPlain ==
    [words |-> << <<"I", "t">>, <<"w", "a", "s">>, <<"l", "o", "n", "g", ".">> >>,
     gap |-> <<" ">>, strong |-> FALSE]

SentQuestion ==
    [words |-> << <<"H", "O", "W", "'", "s">>, <<"t", "h", "i", "s", ":">>,
               <<"o", "k", "?">> >>,
     gap |-> <<" ">>, strong |-> TRUE]

SentInside ==
    [words |-> << <<"h", "o", "w", "e", "v", "e", "r">>, <<"é", "h", "o", "w">>,
               <<"s", "h", "o", "w", "e", "d", "!">> >>,
     gap |-> <<" ", " ">>, strong |-> FALSE]

SentLong ==
    [words |-> << <<"a">>, <<"b">>, <<"c">>, <<"d">>, <<"e">>, <<"f">>, <<"g">>,
               <<"h">>, <<"i">>, <<"j", ".">> >>,
     gap |-> <<" ">>, strong |-> FALSE]

SentLongStrong ==
    [words |-> << <<"a">>, <<"b">>, <<"N", "e", "v", "e", "r">>, <<"c">>,
               <<"d">>, <<"e">>, <<"f">>, <<"g">>, <<"h">>, <<"i", "?">> >>,
     gap |-> <<" ">>, strong |-> TRUE]

TailPlain ==
    [words |-> << <<"o", "k">> >>,
     gap |-> <<" ">>, strong |-> FALSE]

TailStrong ==
    [words |-> << <<"w", "h", "a", "t">>, <<"n", "o", "w">> >>,
     gap |-> <<" ">>, strong |-> TRUE]

Sentences == {SentPlain, SentQuestion, SentInside, SentLong, SentLongStrong}
\* The words after the last closing punctuation, if any.
Tails == {<<>>, <<TailPlain>>, <<TailStrong>>}
\* The whitespace between two sentences (a space; a line feed and a space; a
\* carriage return and a no-break space).
SentenceGaps == {<<" ">>, <<"\n", " ">>, <<"\r", " ">>}

SentenceText(c) == join(c.gap, c.words)
\* src/main.py:162: the transcript, stripped, of the sentences parts.
TranscriptOf(parts, gap) ==
    join(gap, [i \in 1 .. Len(parts) |-> SentenceText(parts[i])])

InitHook ==
    /\ AtRest
    /\ call \in {[fn |-> "pick_title_hook", parts |-> p \o tail,
                   text |-> TranscriptOf(p \o tail, gap)] :
                    p \in UNION {[1 .. n -> Sentences] : n \in 0 .. MaxSentences},
                    tail \in Tails, gap \in SentenceGaps}
    /\ ret = NoRet

\* src/main.py:58-65, 165
CallHook ==
    /\ call.fn = "pick_title_hook" /\ ~ret.done
    /\ ret' = Returned(pick_title_hook(call.text))
    /\ UNCHANGED <<Handler, call>>

NextHook == CallHook

SpecHook == InitHook /\ [][NextHook]_vars

\* The first sentence with a trigger word, else the first sentence.
Preferred(parts) ==
    IF \E i \in DOMAIN parts : parts[i].strong
    THEN parts[CHOOSE i \in DOMAIN parts :
                   parts[i].strong /\ \A k \in 1 .. i - 1 : ~parts[k].strong]
    ELSE parts[1]

\* C15: the hook is the first sentence candidate that holds a trigger word
\* (in any case), else the first candidate, else "Watch this" when the
\* transcript is empty; a candidate of more than 8 words is cut to its first
\* 8 words, so the hook never has more than 8 words.
C15_HookSelection ==
    call.fn = "pick_title_hook" /\ ret.done =>
        /\ Len(split(ret.val, <<>>)) <= MaxHookWords
        /\ IF call.parts = <<>> THEN ret.val = DefaultHook
           ELSE LET c == Preferred(call.parts)
                IN  IF Len(c.words) > MaxHookWords
                    THEN ret.val = join(<<" ">>, SubSeq(c.words, 1, MaxHookWords))
                    ELSE ret.val = SentenceText(c)

\* The second sentence holds a trigger word in capitals and the first none:
\* the hook is the second sentence, cut to 8 words.
C15_Witness ==
    /\ call.fn = "pick_title_hook" /\ ret.done
    /\ Len(call.parts) >= 2
    /\ call.parts[1] = SentInside /\ call.parts[2] = SentLongStrong
    /\ Len(split(ret.val, <<>>)) = MaxHookWords
    /\ split(ret.val, <<>>)[3] = <<"N", "e", "v", "e", "r">>

----------------------------------------------------------------------------
(* C16: the escaping of the hook text *)

\* Hook texts of up to MaxHookLen characters.
MaxHookLen == 4
\* A letter, a space, the three characters the code escapes, the backslash.
HookChars == {"a", " ", ":", "'", "\"", "\\"}
HookTexts == UNION {[1 .. n -> HookChars] : n \in 0 .. MaxHookLen}

InitEscape ==
    /\ AtRest
    /\ call \in {[fn |-> "safe_title", title_hook |-> h] : h \in HookTexts}
    /\ ret = NoRet

\* src/main.py:188-193
CallEscape ==
    /\ call.fn = "safe_title" /\ ~ret.done
    /\ ret' = Returned(safe_title(call.title_hook))
    /\ UNCHANGED <<Handler, call>>

NextEscape == CallEscape

SpecEscape == InitEscape /\ [][NextEscape]_vars

RECURSIVE WithEscapes(_)
\* h with one escape character put before each colon and quote, and no
\* other change.
WithEscapes(h) ==
    IF h = <<>> THEN <<>>
    ELSE (IF Head(h) \in {":", "'", "\""} THEN <<"\\", Head(h)>> ELSE <<Head(h)>>)
            \o WithEscapes(Tail(h))

RECURSIVE Unescape(_)
\* What a reader of the literal gets: an escape character stands for the
\* character after it (a last, lone one for itself).
Unescape(s) ==
    IF s = <<>> THEN <<>>
    ELSE IF Head(s) = "\\" /\ Len(s) >= 2 THEN <<s[2]>> \o Unescape(Tail(Tail(s)))
         ELSE <<Head(s)>> \o Unescape(Tail(s))

\* C16: in the literal every colon, double quote and single quote of the
\* hook is preceded by one escape character, nothing else is altered, and
\* un-escaping the literal gives the hook back.
C16_EscapeRoundTrip ==
    call.fn = "safe_title" /\ ret.done =>
        /\ ret.val = WithEscapes(call.title_hook)
        /\ Unescape(ret.val) = call.title_hook

----------------------------------------------------------------------------
(* C17 *)

\* The stage ran in this job.
Ran(r, stage) == \E i \in DOMAIN r.trace : r.trace[i] = stage

\* This step is the run of the stage in job j.
StepOf(j, stage) == job'[j].trace = Append(job[j].trace, stage)

\* C17: the hook is computed once per job, by SelectHook from the transcript,
\* and no other step changes it (the job's locals end with its response); the
\* text of the overlay is set by ComposeAndBurn alone, to that hook escaped,
\* and the title_hook of a READY submission is that hook itself.
C17_HookComputedOnce ==
    /\ [](\A j \in Jobs :
            LET r == job[j]
            IN  /\ Cardinality({i \in DOMAIN r.trace : r.trace[i] = "SelectHook"}) <= 1
                /\ \A i \in DOMAIN r.posts :
                      r.posts[i].status = "READY" =>
                          /\ Ran(r, "SelectHook") /\ Ran(r, "ComposeAndBurn")
                          /\ r.posts[i].title_hook = r.title_hook)
    /\ [][\A j \in Jobs :
            \/ job'[j] = IdleJob
            \/ /\ IF StepOf(j, "SelectHook")
                   THEN job'[j].title_hook = pick_title_hook(job[j].transcript)
                   ELSE job'[j].title_hook = job[j].title_hook
               /\ IF StepOf(j, "ComposeAndBurn")
                   THEN job'[j].draw.text = safe_title(job[j].title_hook)
                   ELSE job'[j].draw = job[j].draw]_vars

\* A READY submission was made for a hook with a colon and an apostrophe,
\* which the overlay holds escaped.
C17_Witness ==
    \E j \in Jobs :
        /\ AtResponse(job[j])
        /\ \E i \in DOMAIN job[j].posts :
              /\ job[j].posts[i].status = "READY"
              /\ job[j].posts[i].title_hook = job[j].title_hook
        /\ \E i \in DOMAIN job[j].title_hook : job[j].title_hook[i] = ":"
        /\ job[j].draw.text # job[j].title_hook
        /\ job[j].draw.text = safe_title(job[j].title_hook)

----------------------------------------------------------------------------
(* C18 *)

\* The submissions of job r with the given status.
PostsOf(r, status) == {i \in DOMAIN r.posts : r.posts[i].status = status}

\* C18: at every moment a job has made at most one webhook submission: never
\* two READY ones, never a READY and a FAILED one (whatever the READY post
\* answered), and never a FAILED one to both the primary and the legacy
\* endpoint; FAILED goes to the primary endpoint when it is configured.
C18_AtMostOneSubmission ==
    \A j \in Jobs :
        LET r == job[j]
        IN  /\ Len(r.posts) <= 1
            /\ Cardinality(PostsOf(r, "READY")) <= 1
            /\ PostsOf(r, "READY") = {} \/ PostsOf(r, "FAILED") = {}
            /\ Cardinality({r.posts[i].to : i \in PostsOf(r, "FAILED")}) <= 1
            /\ \A i \in PostsOf(r, "FAILED") :
                  r.posts[i].to = IF ZAPIER_WEBHOOK_URL # "" THEN "zapier" ELSE "base44"
            /\ \A i \in PostsOf(r, "READY") : r.posts[i].to = "zapier"

\* The READY post raised an exception, and the job ends with that one
\* submission and no FAILED one.
C18_Witness ==
    \E j \in Jobs :
        /\ AtResponse(job[j]) /\ Len(job[j].posts) = 1
        /\ job[j].posts[1].status = "READY" /\ job[j].posts[1].outcome = "exception"

----------------------------------------------------------------------------
(* C19 *)

\* The job's workspace was created and exists no more.
Removed(r) == Validated(r) /\ r.work \notin DOMAIN fs

\* C19: a job's workspace is removed only once its delivery is over (the
\* callback step of a successful job, or the except block of a failed one,
\* has run and fixed the response); a READY submission is made while the
\* final video is in the workspace; and once the workspace is removed the
\* job runs no stage and makes no submission.
C19_DeliveryBeforeRemoval ==
    [][\A j \in Jobs :
          LET r == job[j]
          IN  /\ r.work \in DOMAIN fs /\ r.work \notin DOMAIN fs' =>
                    /\ r.resp # NoResp
                    /\ Ran(r, "Deliver") \/ Failed(r)
              /\ Len(job'[j].posts) > Len(r.posts) =>
                    /\ r.work \in DOMAIN fs
                    /\ job'[j].posts[Len(job'[j].posts)].status = "READY" =>
                          "final.mp4" \in fs[r.work]
              /\ Removed(r) =>
                    \/ job'[j] = IdleJob
                    \/ job'[j].trace = r.trace /\ job'[j].posts = r.posts]_vars

\* A job whose READY submission was made has had its workspace removed and
\* waits to hand out its response.
C19_Witness ==
    \E j \in Jobs :
        /\ Removed(job[j]) /\ job[j].pc = "respond"
        /\ Ran(job[j], "Deliver") /\ job[j].resp.status = 200
        /\ Len(job[j].posts) = 1 /\ job[j].posts[1].file = "final.mp4"

====
